---------------------------- MODULE Spec2Model ----------------------------
(***************************************************************************)
(* LapSim (archive/LapSim_v3.py): the part of LapSim.lap_time that runs on *)
(* the radius-of-curvature array: find_apex, get_velocity_list (v_apex,    *)
(* the forward/backward solver loop, calc_velocity, v_lim_electric,        *)
(* v_lim_hybrid, e_apex) and find_brake_pts.                               *)
(*                                                                         *)
(* Units.  The program computes in binary floating point; the model uses   *)
(* integers: lengths in cm, accelerations in cm/s^2, times in ms, energies *)
(* in J, rpm in units of 0.1 rpm.  A velocity is kept as its SQUARE (vsq,  *)
(* cm^2/s^2), so that v**2 = alim*r, the comparisons of v**2/r with alim   *)
(* and the comparisons between candidate velocities are exact; Vel(w) is   *)
(* the velocity itself, rounded down to 1 cm/s.  np.inf and np.nan are the *)
(* two values PosInf and NaN.                                              *)
(***************************************************************************)
EXTENDS Integers, Sequences, FiniteSets, TLC

\* self.steps: number of discretized points (the constructor's `steps`).
Steps == 5

\* np.inf (r[np.isnan(r)] = np.inf) and np.nan.
PosInf == 1073741824
NaN == -1073741824

\* self.g, in cm/s^2.
G == 981

\* The unit conversions of calc_velocity / v_lim_*: 0.0254 m per inch,
\* 1.356 N m per lbf ft, 745.7 W per hp, scaled to the model's units.
\* wheel_radius*0.0254*2*np.pi, in 0.1 mm: wheel_radius * 1595.93
CircPerInch == 159593
\* p_ICE*745.7/omega with omega = rpm/60*2*pi: 745.7*60/(2*pi) = 7120.9 N m
\* per hp/rpm, here in mN m per (0.01 hp)/(0.1 rpm)
HpToTorque == 712090

Idx == 0 .. (Steps - 1)

\* np.remainder(k, self.steps)
Rem(k) == k % Steps

\* numpy's indexing with a possibly negative index: k in -Steps .. Steps-1
\* designates element k (k >= 0) or k + Steps (k < 0); anything else raises
\* IndexError.
InRange(k) == (k >= 0 - Steps) /\ (k < Steps)
Py(k) == IF k < 0 THEN k + Steps ELSE k

Min2(a, b) == IF a <= b THEN a ELSE b
Abs(a) == IF a < 0 THEN 0 - a ELSE a

\* Division of reals rounded toward zero (the float quotient, truncated).
Quot(a, b) ==
    IF (a >= 0) = (b > 0) THEN Abs(a) \div Abs(b) ELSE 0 - (Abs(a) \div Abs(b))

RECURSIVE SqrtBetween(_, _, _)
SqrtBetween(x, lo, hi) ==
    IF lo >= hi THEN lo
    ELSE LET mid == (lo + hi + 1) \div 2
         IN  IF mid * mid <= x THEN SqrtBetween(x, mid, hi)
                               ELSE SqrtBetween(x, lo, mid - 1)

\* np.sqrt of a non-negative number, rounded down.
ISqrt(x) == SqrtBetween(x, 0, Min2(x, 46340))

(***************************************************************************)
(* The Car object (car.py is not part of the sources: its fields are the   *)
(* inputs the program reads).  engine.trans is [primary, final, gear 1,    *)
(* gear 2, ...] as indexed by v_lim_hybrid; engine.power(rpm) is a linear  *)
(* power curve reaching peak_hp at maxrpm; engine.eta is a flat efficiency *)
(* surface of eta_ice percent.                                             *)
(***************************************************************************)
ElectricCar ==
    [hybrid |-> 0, mu |-> 100, m |-> 300, wheel_radius |-> 10, power_split |-> 0,
     motor |-> [trans |-> 4, maxrpm |-> 4500, torque_max |-> 14, power_max |-> 14,
                eta |-> 90],
     engine |-> [trans |-> <<2, 3, 3, 2, 1>>, minrpm |-> 2000, maxrpm |-> 9000,
                 peak_hp |-> 20, eta_ice |-> 30]]

HybridCar ==
    [hybrid |-> 1, mu |-> 100, m |-> 300, wheel_radius |-> 10, power_split |-> 50,
     motor |-> [trans |-> 4, maxrpm |-> 4500, torque_max |-> 14, power_max |-> 14,
                eta |-> 90],
     engine |-> [trans |-> <<2, 3, 3, 2, 1>>, minrpm |-> 2000, maxrpm |-> 9000,
                 peak_hp |-> 20, eta_ice |-> 30]]

\* The hybrid car with an engine that idles at 4500 rpm
HybridCarHighIdle ==
    [HybridCar EXCEPT !.engine = [HybridCar.engine EXCEPT !.minrpm = 4500]]

Cars == {ElectricCar, HybridCar, HybridCarHighIdle}

\* Radii of curvature (cm) a sample can have: 20 m, 50 m, 200 m, or np.inf
\* on a straight.
Radii == {2000, 5000, 20000, PosInf}

VARIABLES
    pc,           \* position in lap_time: the stage running, or "done"
    err,          \* the exception raised at pc that ended the run, "" if none
    car,          \* self.car
    r_in,         \* self.r as roc() returned it (before find_apex rotates it)
    r,            \* self.r
    pts_interp,   \* self.pts_interp: the track sample each column describes
    elevation,    \* self.elevation: the track sample each entry describes
    dpds,         \* self.dpds
    d2pds2,       \* self.d2pds2
    apex,         \* self.apex[0], as a sequence
    vsq,          \* v**2 for the array v of get_velocity_list / self.v
    gear,         \* gear
    energy_list,  \* energy_list: <<e_ICE, e_EM>> per sample
    time,         \* time
    i,            \* the cursor i
    apex_idx,     \* apex_idx
    state,        \* 'f' or 'b'
    brake,        \* self.brake[0], as a set
    time_seg      \* for every sample the segment k -> k+1 (named by k) that
                  \* time[sample] was computed for, -1 for the initial zero

vars == <<pc, err, car, r_in, r, pts_interp, elevation, dpds, d2pds2, apex, vsq,
          gear, energy_list, time, i, apex_idx, state, brake, time_seg>>

track == <<car, r_in, r, pts_interp, elevation, dpds, d2pds2, apex>>
profile == <<vsq, gear, energy_list, time>>


(***************************************************************************)
(* find_apex                                                               *)
(***************************************************************************)

\* np.sign(a - b) for two radii: inf - inf is nan, and np.sign(nan) is nan.
SignOfDiff(a, b) ==
    IF a = PosInf /\ b = PosInf THEN NaN
    ELSE IF a = PosInf THEN 1
    ELSE IF b = PosInf THEN 0 - 1
    ELSE IF a > b THEN 1
    ELSE IF a < b THEN 0 - 1
    ELSE 0

\* sign = np.sign(self.r - np.roll(self.r, 1)): entry k compares r[k], r[k-1].
DrSign(rr) == [k \in Idx |-> SignOfDiff(rr[k], rr[Rem(k - 1)])]

\* x - np.roll(x, -1): entry k is x[k] - x[k+1]; nan if either is nan.
FlipOf(sg) ==
    [k \in Idx |-> IF sg[k] = NaN \/ sg[Rem(k + 1)] = NaN THEN NaN
                   ELSE sg[k] - sg[Rem(k + 1)]]

\* np.min / np.max of an array: nan if any entry is nan.
NpMin(f) ==
    IF \E k \in DOMAIN f : f[k] = NaN THEN NaN
    ELSE CHOOSE x \in {f[k] : k \in DOMAIN f} : \A k \in DOMAIN f : x <= f[k]

NpMax(f) ==
    IF \E k \in DOMAIN f : f[k] = NaN THEN NaN
    ELSE CHOOSE x \in {f[k] : k \in DOMAIN f} : \A k \in DOMAIN f : x >= f[k]

\* np.where(f == x)[0]: nan equals nothing, itself included.
WhereEq(f, x) == {k \in DOMAIN f : f[k] # NaN /\ x # NaN /\ f[k] = x}

\* apex = np.where(sign_flip == np.min(sign_flip))
ApexWhere(rr) == WhereEq(FlipOf(DrSign(rr)), NpMin(FlipOf(DrSign(rr))))

RECURSIVE SortedSeq(_)
\* The indices of a set in increasing order, as np.where lists them.
SortedSeq(S) ==
    IF S = {} THEN <<>>
    ELSE LET lo == CHOOSE x \in S : \A y \in S : x <= y
         IN  <<lo>> \o SortedSeq(S \ {lo})

\* RollIdx with the offset applied the wrong way round (idx = np.arange(N) - a0)
RollIdxBackward(a0, j) == j - a0

\* idx = np.arange(N) - idx_0 with idx_0 = N - apex[0][0]
RollIdx(a0, j) == j - (Steps - a0)

\* arr[idx]: fancy indexing, a negative index counting from the end.
Reindex(arr, a0) == [j \in Idx |-> arr[Py(RollIdx(a0, j))]]

FindApex ==
    /\ pc = "find_apex" /\ err = ""
    /\ LET found == SortedSeq(ApexWhere(r))
       IN  IF found = <<>>
           THEN \* apex[0][0] on an empty array
                /\ err' = "IndexError"
                /\ UNCHANGED <<pc, r, pts_interp, apex>>
           ELSE /\ apex' = [k \in 1 .. Len(found) |-> found[k] - found[1]]
                /\ r' = Reindex(r, found[1])
                /\ pts_interp' = Reindex(pts_interp, found[1])
                /\ pc' = "get_velocity_list"
                /\ err' = err
    /\ UNCHANGED time_seg
    /\ UNCHANGED <<car, r_in, elevation, dpds, d2pds2, profile, i, apex_idx,
                   state, brake>>

(***************************************************************************)
(* The powertrain: v_lim_electric, v_lim_hybrid                            *)
(***************************************************************************)

\* self.car.alim = self.g * self.car.mu  (mu in percent)
Alim(c) == (G * c.mu) \div 100

\* self.ds = 1000/self.steps, in cm
Ds == 100000 \div Steps

\* The velocity (cm/s) whose square is w.
Vel(w) == IF w = PosInf THEN PosInf ELSE ISqrt(w)

\* self.car.wheel_radius*0.0254*2*np.pi, in 0.1 mm
WheelCirc(c) == (c.wheel_radius * CircPerInch) \div 100

\* v_rpm = maxrpm/60*(wheel_radius*0.0254*2*np.pi), in cm/s, maxrpm in 0.1 rpm
VRpm(c, maxrpm) == (maxrpm * WheelCirc(c)) \div 60000

\* (torque)/(wheel_radius*0.0254*m): torque in mN m, result in cm/s^2
TorqueToAcc(c, torque) == (torque * 1000) \div (c.wheel_radius * c.m * 254)

\* v_lim_electric: (a_tor, maxrpm)
VLimElectric(c, vin, rpm0) ==
    [a_tor  |-> TorqueToAcc(c, c.motor.power_max * 1356 * c.motor.trans),
     maxrpm |-> (c.motor.maxrpm * 10) \div c.motor.trans]

\* self.car.engine.power(rpm), in 0.01 hp, rpm in 0.1 rpm
EnginePower(c, rpm) == (c.engine.peak_hp * 10 * rpm) \div c.engine.maxrpm

\* engine.trans[k] with the program's 0-based k
Trans(c, k) == c.engine.trans[k + 1]

NGears(c) == Len(c.engine.trans) - 2

\* rpm_list = rpm0*trans[2:]*trans[0]*trans[1]; entry k (0-based) is gear k+1
RpmList(c, rpm0, k) ==
    IF rpm0 = PosInf THEN PosInf ELSE rpm0 * Trans(c, k + 2) * Trans(c, 0) * Trans(c, 1)

\* np.where((maxrpm*r > rpm_list) & (minrpm < rpm_list)) with r = 0.95
RpmIdx(c, rpm0) ==
    {k \in 0 .. (NGears(c) - 1) :
        /\ c.engine.maxrpm * 95 > RpmList(c, rpm0, k) * 10
        /\ c.engine.minrpm * 10 < RpmList(c, rpm0, k)}

\* gear_new of v_lim_hybrid
GearNew(c, gr, rpm0) ==
    IF gr = 1 /\ RpmList(c, rpm0, 0) < c.engine.minrpm * 10 THEN gr
    ELSE IF RpmIdx(c, rpm0) = {} THEN gr
    ELSE (CHOOSE k \in RpmIdx(c, rpm0) : \A j \in RpmIdx(c, rpm0) : k <= j) + 1

\* rpm_at_gear_new (0.1 rpm)
RpmAtGearNew(c, gr, rpm0) ==
    IF gr = 1 /\ RpmList(c, rpm0, 0) < c.engine.minrpm * 10 THEN RpmList(c, rpm0, 0)
    ELSE IF RpmIdx(c, rpm0) = {} THEN c.engine.maxrpm * 10
    ELSE RpmList(c, rpm0, GearNew(c, gr, rpm0) - 1)

\* p_ICE of v_lim_hybrid (0.01 hp)
PIceAt(c, gr, rpm0) ==
    IF gr = 1 /\ RpmList(c, rpm0, 0) < c.engine.minrpm * 10
    THEN EnginePower(c, c.engine.minrpm * 10)
    ELSE EnginePower(c, RpmAtGearNew(c, gr, rpm0))

\* torque_ICE_at_wheel = (p_ICE*745.7/omega_ICE)*trans[gear_new+1], in mN m
TorqueIce(c, gr, rpm0) ==
    IF RpmAtGearNew(c, gr, rpm0) = 0 THEN 0
    ELSE ((PIceAt(c, gr, rpm0) * HpToTorque) \div RpmAtGearNew(c, gr, rpm0))
         * Trans(c, GearNew(c, gr, rpm0) + 1)

\* wheel_maxrpm_ICE = engine.maxrpm/(trans[gear_new+1]*trans[0]*trans[1]), 0.1 rpm
WheelMaxRpmIce(c, gr) ==
    (c.engine.maxrpm * 10) \div (Trans(c, gr + 1) * Trans(c, 0) * Trans(c, 1))

\* wheel_maxrpm_EM = motor.maxrpm/motor.trans, 0.1 rpm
WheelMaxRpmEm(c) == (c.motor.maxrpm * 10) \div c.motor.trans

\* The wheel rpm ceilings the powertrain of car c can report (0.1 rpm)
RpmCeilings(c) ==
    {WheelMaxRpmEm(c), VLimElectric(c, 0, 0).maxrpm}
        \cup {WheelMaxRpmIce(c, g) : g \in 0 .. NGears(c)}

\* rpm0 = vin/(wheel_radius*0.0254*2*np.pi)*60, in 0.1 rpm.  For an
\* rpm-limited speed vin = maxrpm/60*(wheel_radius*0.0254*2*np.pi) the
\* quotient gives maxrpm back.
WheelRpm(c, vin) ==
    IF vin = PosInf THEN PosInf
    ELSE IF \E mx \in RpmCeilings(c) : VRpm(c, mx) = vin
    THEN CHOOSE mx \in RpmCeilings(c) :
             /\ VRpm(c, mx) = vin
             /\ \A other \in RpmCeilings(c) : VRpm(c, other) = vin => mx <= other
    ELSE (vin * 60000) \div WheelCirc(c)

\* v_lim_hybrid: (a_tor, maxrpm, gear_new)
VLimHybrid(c, vin, gr, rpm0) ==
    [a_tor  |-> TorqueToAcc(c, c.motor.torque_max * 1356 * c.motor.trans
                               + TorqueIce(c, gr, rpm0)),
     maxrpm |-> Min2(WheelMaxRpmEm(c), WheelMaxRpmIce(c, GearNew(c, gr, rpm0))),
     gear_new |-> GearNew(c, gr, rpm0)]

\* The powertrain call of calc_velocity and v_apex: hybrid or electric.
VLim(c, vin, gr, rpm0) ==
    IF c.hybrid = 1 THEN VLimHybrid(c, vin, gr, rpm0)
    ELSE [a_tor |-> VLimElectric(c, vin, rpm0).a_tor,
          maxrpm |-> VLimElectric(c, vin, rpm0).maxrpm,
          gear_new |-> 1]

(***************************************************************************)
(* calc_velocity, calc_fuel                                                *)
(***************************************************************************)

\* How ap = v**2/roc compares with alim: 1 (ap > alim), 0 (equal), -1 (ap <
\* alim).  With wsq = v**2 the comparison is that of wsq with alim*roc.  When
\* the two are equal in exact arithmetic, the floating-point quotient is
\* within one rounding of alim on either side: rnd (-1, 0 or 1) is the side
\* the rounding takes.
ApCmp(c, wsq, roc, rnd) ==
    IF roc = PosInf THEN 0 - 1
    ELSE IF wsq > Alim(c) * roc THEN 1
    ELSE IF wsq < Alim(c) * roc THEN 0 - 1
    ELSE rnd

\* ap = v**2/roc in cm/s^2 (0 on a straight)
Ap(wsq, roc) == IF roc = PosInf THEN 0 ELSE wsq \div roc

\* a_trac = np.sqrt(alim**2 - ap**2): nan when ap > alim
ATrac(c, wsq, roc, rnd) ==
    IF ApCmp(c, wsq, roc, rnd) > 0 THEN NaN
    ELSE IF Ap(wsq, roc) >= Alim(c) THEN 0
    ELSE ISqrt(Alim(c) * Alim(c) - Ap(wsq, roc) * Ap(wsq, roc))

\* The square of a candidate velocity np.sqrt(2*a*ds + vin**2)
Kinematic(wsq, acc) == IF acc = NaN THEN NaN ELSE wsq + 2 * acc * Ds

\* v_trac_l**2 = alim*roc
LateralSq(c, roc) == IF roc = PosInf THEN PosInf ELSE Alim(c) * roc

\* a = (vx**2 - vin**2)/(2*ds)
AccOf(wx, wsq) == IF wx = PosInf THEN PosInf ELSE Quot(wx - wsq, 2 * Ds)

\* t = (vx - vin)/a in ms, for a candidate vx**2 = wx reached from vin**2 = wsq
\* with acceleration a = (vx**2 - vin**2)/(2*ds): 0/0 and inf/inf are nan,
\* otherwise (vx - vin)/a = 2*ds/(vx + vin).
TimeIncr(wx, wsq) ==
    IF wx = NaN \/ wx = PosInf \/ wx = wsq THEN NaN
    ELSE (2 * Ds * 1000) \div (Vel(wx) + Vel(wsq))

\* m * a * v in W (a in cm/s^2, v in cm/s)
Power(c, acc, vel) == Quot(Quot(c.m * acc, 100) * vel, 100)

\* p * t in J (p in W, t in ms); nan if the time is nan
Joules(pw, tm) == IF tm = NaN THEN NaN ELSE Quot(pw, 10) * Quot(tm, 100)

\* calc_fuel on a flat efficiency surface: 0 for no power, else Power*100/eta*t
CalcFuel(c, gr, vel, pw, tm) ==
    IF pw = 0 THEN 0
    ELSE IF tm = NaN THEN NaN
    ELSE Quot(Joules(pw, tm), c.engine.eta_ice) * 100

\* [e_ICE, e_EM] for acceleration acc, velocity vel (cm/s) and time tm
EnergyPair(c, gr, acc, vel, tm) ==
    LET p_tot == Power(c, acc, vel)
        p_ICE == Quot(p_tot * (c.hybrid * c.power_split), 100)
        p_EM  == p_tot - p_ICE
    IN  <<CalcFuel(c, gr, vel, p_ICE, tm),
          IF tm = NaN THEN NaN ELSE Quot(Joules(p_EM, tm), c.motor.eta) * 100>>

\* np.min([v_trac, v_tor, v_rpm, v_trac_l]) on the squares
MinOf4(a, b, c4, d) ==
    IF a = NaN \/ b = NaN \/ c4 = NaN \/ d = NaN THEN NaN
    ELSE Min2(Min2(a, b), Min2(c4, d))

\* calc_velocity(vin, ap, gear, roc) with wsq = vin**2 and ap = vin**2/roc.
\* ok = FALSE: v is nan, no branch of the if/elif chain is taken and the
\* function raises UnboundLocalError at e_ICE = self.calc_fuel(.., p_ICE, t).
CalcVelocity(c, wsq, gr, roc, rnd) ==
    LET lim     == VLim(c, Vel(wsq), gr, WheelRpm(c, Vel(wsq)))
        a_tor   == lim.a_tor
        w_tor   == Kinematic(wsq, a_tor)
        a_trac  == ATrac(c, wsq, roc, rnd)
        w_trac  == Kinematic(wsq, a_trac)
        w_lat   == LateralSq(c, roc)
        w_rpm   == VRpm(c, lim.maxrpm) * VRpm(c, lim.maxrpm)
        w       == MinOf4(w_trac, w_tor, w_rpm, w_lat)
        acc     == IF w = w_tor THEN a_tor
                   ELSE IF w = w_trac THEN a_trac
                   ELSE IF w = w_lat THEN AccOf(w_lat, wsq)
                   ELSE AccOf(w_rpm, wsq)
        tm      == IF w = w_tor /\ a_tor = 0 THEN NaN ELSE TimeIncr(w, wsq)
    IN  IF w = NaN
        THEN [ok |-> FALSE, vsq |-> NaN, gear |-> lim.gear_new,
              energy |-> <<NaN, NaN>>, time |-> NaN]
        ELSE [ok |-> TRUE, vsq |-> w, gear |-> lim.gear_new,
              energy |-> EnergyPair(c, lim.gear_new, acc, Vel(w), tm),
              time |-> tm]

(***************************************************************************)
(* lap_time from find_apex on                                              *)
(***************************************************************************)

ApexSet == {apex[k] : k \in DOMAIN apex}

\* self.apex[0][k] with the program's 0-based k
ApexAt(k) == apex[k + 1]

Rounding == {0 - 1, 0, 1}

Init ==
    /\ pc = "find_apex"
    /\ err = ""
    /\ car \in Cars
    /\ r_in \in [Idx -> Radii]
    /\ r = r_in
    /\ pts_interp = [j \in Idx |-> j]
    /\ elevation = [j \in Idx |-> j]
    /\ dpds = [j \in Idx |-> j]
    /\ d2pds2 = [j \in Idx |-> j]
    /\ apex = <<>>
    /\ vsq = [j \in Idx |-> 0]
    /\ gear = [j \in Idx |-> 0]
    /\ energy_list = [j \in Idx |-> <<0, 0>>]
    /\ time = [j \in Idx |-> 0]
    /\ i = 0
    /\ apex_idx = 0
    /\ state = "f"
    /\ brake = {}
    /\ time_seg = [j \in Idx |-> 0 - 1]

\* v_apex: the velocity (squared) and the gear of apex sample k
VApexAt(c, rr, k) ==
    LET w_trac == LateralSq(c, rr[k])
        lim    == VLim(c, Vel(w_trac), 0, WheelRpm(c, Vel(w_trac)))
    IN  [vsq  |-> Min2(w_trac, VRpm(c, lim.maxrpm) * VRpm(c, lim.maxrpm)),
         gear |-> lim.gear_new]

\* get_velocity_list up to the solver loop: alim, energy_list, v_apex(), time,
\* i = 0, apex_idx = 0, state = 'f', gear[0] = 1
VApex ==
    /\ pc = "get_velocity_list" /\ err = ""
    /\ vsq' = [k \in Idx |-> IF k \in ApexSet THEN VApexAt(car, r, k).vsq ELSE 0]
    /\ gear' = [k \in Idx |-> IF k = 0 THEN 1
                              ELSE IF k \in ApexSet THEN VApexAt(car, r, k).gear
                              ELSE 0]
    /\ energy_list' = [k \in Idx |-> <<0, 0>>]
    /\ time' = [k \in Idx |-> 0]
    /\ i' = 0
    /\ apex_idx' = 0
    /\ state' = "f"
    /\ pc' = "solve"
    /\ time_seg' = [k \in Idx |-> 0 - 1]
    /\ UNCHANGED <<err, track, brake>>

\* np.min(v) == 0
SomeUnset == \E k \in Idx : vsq[k] = 0

\* NextApexIdx without the advance: the apex cursor stays where it is
StayApexIdx == apex_idx % Len(apex)

\* apex_idx = np.remainder(apex_idx+1, len(self.apex[0]))
NextApexIdx == (apex_idx + 1) % Len(apex)

\* v[k], gear[k], energy_list[k], time[k] = calc_velocity(...)
Store(k, res) ==
    /\ vsq' = [vsq EXCEPT ![k] = res.vsq]
    /\ gear' = [gear EXCEPT ![k] = res.gear]
    /\ energy_list' = [energy_list EXCEPT ![k] = res.energy]
    /\ time' = [time EXCEPT ![k] = res.time]

\* state 'f', next sample unset, below the traction limit: step forward
ForwardStep ==
    /\ pc = "solve" /\ err = "" /\ i < Steps /\ state = "f"
    /\ vsq[Rem(i + 1)] = 0
    /\ \E rnd \in Rounding :
         /\ ApCmp(car, vsq[i], r[Rem(i + 1)], rnd) < 0
         /\ Store(Rem(i + 1), CalcVelocity(car, vsq[i], gear[i], r[Rem(i + 1)], rnd))
    /\ i' = Rem(i + 1)
    /\ time_seg' = [time_seg EXCEPT ![Rem(i + 1)] = i]
    /\ UNCHANGED <<pc, err, track, apex_idx, state, brake>>

\* state 'f', next sample unset, traction is lost: jump to the next apex
LoseTraction ==
    /\ pc = "solve" /\ err = "" /\ i < Steps /\ state = "f"
    /\ vsq[Rem(i + 1)] = 0
    /\ \E rnd \in Rounding : ApCmp(car, vsq[i], r[Rem(i + 1)], rnd) >= 0
    /\ state' = "b"
    /\ apex_idx' = NextApexIdx
    /\ i' = ApexAt(NextApexIdx)
    /\ UNCHANGED <<pc, err, track, profile, brake, time_seg>>

\* state 'f', next sample already has a velocity, some sample still unset:
\* "reaching an apex without braking"
PassResolved ==
    /\ pc = "solve" /\ err = "" /\ i < Steps /\ state = "f"
    /\ vsq[Rem(i + 1)] # 0
    /\ SomeUnset
    /\ i' = Rem(i + 1)
    /\ apex_idx' = NextApexIdx
    /\ UNCHANGED <<pc, err, track, profile, state, brake, time_seg>>

\* state 'f', next sample already has a velocity, none unset: break
EndOfTrack ==
    /\ pc = "solve" /\ err = "" /\ i < Steps /\ state = "f"
    /\ vsq[Rem(i + 1)] # 0
    /\ ~SomeUnset
    /\ pc' = "e_apex"
    /\ UNCHANGED <<err, track, profile, i, apex_idx, state, brake, time_seg>>

\* state 'b': a step that raises.  self.r[i-1] / v[i-1] with i-1 below -N is
\* an IndexError; calc_velocity for an unset predecessor with ap > alim has
\* a_trac = nan, v = nan and raises UnboundLocalError.
BrakeFault ==
    /\ pc = "solve" /\ err = "" /\ i < Steps /\ state = "b"
    /\ IF ~InRange(i - 1)
       THEN err' = "IndexError"
       ELSE /\ vsq[Py(i - 1)] = 0
            /\ \E rnd \in Rounding :
                 ~CalcVelocity(car, vsq[Py(i)], gear[Py(i)], r[Py(i - 1)], rnd).ok
            /\ err' = "UnboundLocalError"
    /\ UNCHANGED <<pc, track, profile, i, apex_idx, state, brake, time_seg>>

\* state 'b', velocity of the predecessor not yet calculated
BrakeUnset ==
    /\ pc = "solve" /\ err = "" /\ i < Steps /\ state = "b"
    /\ InRange(i - 1)
    /\ vsq[Py(i - 1)] = 0
    /\ \E rnd \in Rounding :
         /\ CalcVelocity(car, vsq[Py(i)], gear[Py(i)], r[Py(i - 1)], rnd).ok
         /\ Store(Py(i - 1),
                  CalcVelocity(car, vsq[Py(i)], gear[Py(i)], r[Py(i - 1)], rnd))
    /\ i' = i - 1
    /\ time_seg' = [time_seg EXCEPT ![Py(i - 1)] = Py(i - 1)]
    /\ UNCHANGED <<pc, err, track, apex_idx, state, brake>>

\* state 'b', predecessor calculated, alim < ap: back to forward integration
BrakeLoseTraction ==
    /\ pc = "solve" /\ err = "" /\ i < Steps /\ state = "b"
    /\ InRange(i - 1)
    /\ vsq[Py(i - 1)] # 0
    /\ \E rnd \in Rounding : ApCmp(car, vsq[Py(i)], r[Py(i - 1)], rnd) > 0
    /\ state' = "f"
    /\ i' = ApexAt(apex_idx)
    /\ UNCHANGED <<pc, err, track, profile, apex_idx, brake, time_seg>>

\* Lower with the comparison reversed (vb > v[i-1])
Higher(vb, old) == vb > old

\* vb < v[i-1]
Lower(vb, old) == vb < old

\* state 'b', predecessor calculated, the braking velocity is lower: overwrite
BrakeOverwrite ==
    /\ pc = "solve" /\ err = "" /\ i < Steps /\ state = "b"
    /\ InRange(i - 1)
    /\ vsq[Py(i - 1)] # 0
    /\ \E rnd \in Rounding :
         /\ ApCmp(car, vsq[Py(i)], r[Py(i - 1)], rnd) <= 0
         /\ Lower(CalcVelocity(car, vsq[Py(i)], gear[Py(i)], r[Py(i - 1)], rnd).vsq,
                  vsq[Py(i - 1)])
         /\ Store(Py(i - 1),
                  CalcVelocity(car, vsq[Py(i)], gear[Py(i)], r[Py(i - 1)], rnd))
    /\ i' = i - 1
    /\ time_seg' = [time_seg EXCEPT ![Py(i - 1)] = Py(i - 1)]
    /\ UNCHANGED <<pc, err, track, apex_idx, state, brake>>

\* state 'b', predecessor calculated, the braking velocity is not lower:
\* found the brake point
BrakePoint ==
    /\ pc = "solve" /\ err = "" /\ i < Steps /\ state = "b"
    /\ InRange(i - 1)
    /\ vsq[Py(i - 1)] # 0
    /\ \E rnd \in Rounding :
         /\ ApCmp(car, vsq[Py(i)], r[Py(i - 1)], rnd) <= 0
         /\ ~Lower(CalcVelocity(car, vsq[Py(i)], gear[Py(i)], r[Py(i - 1)], rnd).vsq,
                   vsq[Py(i - 1)])
    /\ state' = "f"
    /\ i' = ApexAt(apex_idx)
    /\ UNCHANGED <<pc, err, track, profile, apex_idx, brake, time_seg>>

\* e_apex for apex sample k: time[k] and energy_list[k] from v[k], v[k+1]
EApexAt(c, k) ==
    LET tm == TimeIncr(vsq[k + 1], vsq[k])
    IN  [time   |-> tm,
         energy |-> EnergyPair(c, gear[k], AccOf(vsq[k + 1], vsq[k]), Vel(vsq[k]), tm)]

\* dec = np.where(np.sign(v - np.roll(v, -1)) == 1)
Decelerating == {k \in Idx : vsq[k] > vsq[Rem(k + 1)]}

\* The tail of get_velocity_list: e_apex, then the energy of the
\* decelerating points set to [0, 0].  v[i+1] for an apex at N-1 is an
\* IndexError.
EApex ==
    /\ pc = "e_apex" /\ err = ""
    /\ IF (Steps - 1) \in ApexSet
       THEN /\ err' = "IndexError"
            /\ UNCHANGED <<pc, energy_list, time, time_seg>>
       ELSE /\ time' = [k \in Idx |-> IF k \in ApexSet THEN EApexAt(car, k).time
                                      ELSE time[k]]
            /\ energy_list' =
                 [k \in Idx |-> IF k \in Decelerating THEN <<0, 0>>
                                ELSE IF k \in ApexSet THEN EApexAt(car, k).energy
                                ELSE energy_list[k]]
            /\ time_seg' = [k \in Idx |-> IF k \in ApexSet THEN k ELSE time_seg[k]]
            /\ pc' = "find_brake_pts"
            /\ err' = err
    /\ UNCHANGED <<track, vsq, gear, i, apex_idx, state, brake>>

\* v_diff = np.sign(self.v - np.roll(self.v, 1))
VDiffSign(w) == [k \in Idx |-> SignOfDiff(w[k], w[Rem(k - 1)])]

\* brake = np.where(sign_flip == np.max(sign_flip))
BrakeWhere(w) == WhereEq(FlipOf(VDiffSign(w)), NpMax(FlipOf(VDiffSign(w))))

FindBrakePts ==
    /\ pc = "find_brake_pts" /\ err = ""
    /\ brake' = BrakeWhere(vsq)
    /\ pc' = "done"
    /\ UNCHANGED <<err, track, profile, i, apex_idx, state, time_seg>>

Next ==
    \/ FindApex
    \/ VApex
    \/ ForwardStep
    \/ LoseTraction
    \/ PassResolved
    \/ EndOfTrack
    \/ BrakeFault
    \/ BrakeUnset
    \/ BrakeLoseTraction
    \/ BrakeOverwrite
    \/ BrakePoint
    \/ EApex
    \/ FindBrakePts

Spec == Init /\ [][Next]_vars


(***************************************************************************)
(* Properties                                                              *)
(***************************************************************************)

\* get_velocity_list has returned its profile
Returned == err = "" /\ pc \in {"find_brake_pts", "done"}

\* The square of the rpm-ceiling speed of gear gr: the maxrpm the powertrain
\* reports for that gear, as a speed.
RpmCeilingSq(c, gr) ==
    LET maxrpm == IF c.hybrid = 1
                  THEN Min2(WheelMaxRpmEm(c), WheelMaxRpmIce(c, gr))
                  ELSE VLimElectric(c, 0, 0).maxrpm
    IN  VRpm(c, maxrpm) * VRpm(c, maxrpm)

\* C1: in the returned velocity profile every sample's velocity is at most
\* sqrt(mu*g*r[k]) and at most the rpm-ceiling speed of the gear recorded in
\* gear[k].
C1_VelocityWithinLimits ==
    Returned =>
        \A k \in Idx : /\ vsq[k] <= LateralSq(car, r[k])
                       /\ vsq[k] <= RpmCeilingSq(car, gear[k])

\* C2: the solver loop stops only by reaching the end of the lap or by a
\* ConvergenceError: no other exception ends it.
C2_LoopEndsByEndOfLapOrConvergenceError ==
    pc = "solve" => err \in {"", "ConvergenceError"}

\* The number of samples from k forward to the first member of S (0 if k is
\* in S).
DistTo(S, k) ==
    CHOOSE d \in 0 .. (Steps - 1) :
        /\ Rem(k + d) \in S
        /\ \A e \in 0 .. (d - 1) : Rem(k + e) \notin S

\* C3: in the final profile velocity is non-decreasing from every apex up to
\* the next brake point of find_brake_pts, and non-increasing from every brake
\* point up to the next apex.
C3_MonotoneBetweenApexAndBrake ==
    (pc = "done") =>
        /\ \A a \in ApexSet : \A d \in 0 .. (DistTo(brake, a) - 1) :
               vsq[Rem(a + d + 1)] >= vsq[Rem(a + d)]
        /\ \A b \in brake : \A d \in 0 .. (DistTo(ApexSet, b) - 1) :
               vsq[Rem(b + d + 1)] <= vsq[Rem(b + d)]

\* The first apex find_apex detects in the array it is given
FirstDetected == CHOOSE a \in ApexWhere(r_in) : \A b \in ApexWhere(r_in) : a <= b

\* C4: after find_apex index 0 is an apex, every apex index is in 0..N-1, the
\* radius array is the input rotated by the first detected apex a0
\* (r'[j] = r[(j + a0) mod N]), and every returned index designates a sample
\* detected as an apex before the rotation.
C4_IndexZeroIsApex ==
    (pc # "find_apex") =>
        /\ 0 \in ApexSet
        /\ ApexSet \subseteq Idx
        /\ \A j \in Idx : r[j] = r_in[Rem(j + FirstDetected)]
        /\ {Rem(a + FirstDetected) : a \in ApexSet} = ApexWhere(r_in)

\* C4 witness: find_apex has returned after a rotation that moved samples,
\* with more than one apex.
C4_Witness ==
    /\ pc = "get_velocity_list"
    /\ Len(apex) >= 2
    /\ FirstDetected # 0
    /\ \E j \in Idx : r[j] # r_in[j]

\* Samples where the radius goes from decreasing to increasing
StrictMinima(rr) == {k \in Idx : rr[k] < rr[Rem(k - 1)] /\ rr[Rem(k + 1)] > rr[k]}

\* C5: the apex set find_apex computes is exactly the set of local minima of
\* r (empty for a track of uniform radius).
C5_ApexesAreLocalMinima ==
    (pc # "find_apex") => ApexSet = StrictMinima(r)

\* Samples where the velocity goes from increasing to decreasing
PeakSet(w) == {k \in Idx : w[k] > w[Rem(k - 1)] /\ w[Rem(k + 1)] < w[k]}

\* C6: find_brake_pts returns exactly the samples where the profile goes from
\* increasing to decreasing (v[k] > v[k-1] and v[k+1] < v[k], cyclically),
\* also when the top of a peak is a plateau and when there is no such sample.
C6_BrakePointsArePeaks ==
    (pc = "done") => brake = PeakSet(vsq)

\* C7: no calc_velocity call of the solver ends in an undefined number: the
\* call never fails on a nan velocity and no stored time increment is nan.
C7_CalcVelocityDefined ==
    (pc = "solve") =>
        /\ err # "UnboundLocalError"
        /\ \A k \in Idx : time[k] # NaN

\* The first apex strictly ahead of sample k in circular order
FirstApexAhead(k) == Rem(k + 1 + DistTo(ApexSet, Rem(k + 1)))

\* The apex at or last behind sample k in circular order
LastApexBehind(k) ==
    CHOOSE a \in ApexSet :
        \E d \in 0 .. (Steps - 1) :
            /\ Rem(a + d) = k
            /\ \A e \in 1 .. d : Rem(a + e) \notin ApexSet

\* C8: throughout the Accelerating phase apex_idx designates the apex the
\* forward pass last departed from or passed, and a switch from Accelerating
\* to Braking sets the cursor to the first apex strictly ahead of it.
C8_SwitchJumpsToNextApex ==
    [][(pc = "solve" /\ err = "" /\ state = "f") =>
          /\ ApexAt(apex_idx) = LastApexBehind(i)
          /\ (state' = "b" => i' = FirstApexAhead(i))]_vars

\* C8 witness: the solver has just switched to Braking on a track with more
\* than one apex; the cursor is on the apex it jumped to.
C8_Witness ==
    /\ pc = "solve" /\ err = "" /\ state = "b"
    /\ Len(apex) >= 2
    /\ i = ApexAt(apex_idx)
    /\ i # 0

\* The braking candidate vb for the predecessor of the cursor
BrakeCandidate(rnd) ==
    CalcVelocity(car, vsq[Py(i)], gear[Py(i)], r[Py(i - 1)], rnd)

\* Braking with the predecessor of the cursor already resolved
BrakeResolved ==
    /\ pc = "solve" /\ err = "" /\ state = "b"
    /\ InRange(i - 1)
    /\ vsq[Py(i - 1)] # 0

\* C9: a Braking step with a resolved predecessor and ap <= alim overwrites
\* the predecessor exactly when the candidate is strictly lower than the
\* stored velocity (cursor one back, state stays Braking); otherwise it leaves
\* velocity, gear, energy and time unchanged, switches to Accelerating and
\* puts the cursor on the current apex.  No Braking step raises a resolved
\* velocity.
C9_OverwriteOnlyIfLower ==
    [][/\ BrakeResolved =>
            \E rnd \in Rounding :
                IF /\ ApCmp(car, vsq[Py(i)], r[Py(i - 1)], rnd) <= 0
                   /\ BrakeCandidate(rnd).vsq < vsq[Py(i - 1)]
                THEN /\ vsq' = [vsq EXCEPT ![Py(i - 1)] = BrakeCandidate(rnd).vsq]
                     /\ gear' = [gear EXCEPT ![Py(i - 1)] = BrakeCandidate(rnd).gear]
                     /\ time' = [time EXCEPT ![Py(i - 1)] = BrakeCandidate(rnd).time]
                     /\ energy_list' =
                          [energy_list EXCEPT ![Py(i - 1)] = BrakeCandidate(rnd).energy]
                     /\ i' = i - 1
                     /\ state' = "b"
                ELSE /\ profile' = profile
                     /\ state' = "f"
                     /\ i' = ApexAt(apex_idx)
       /\ (pc = "solve" /\ state = "b") =>
            \A k \in Idx : vsq[k] # 0 => vsq'[k] <= vsq[k]]_vars

\* C9 witness: Braking, the predecessor resolved, ap <= alim and the candidate
\* strictly lower than the stored velocity: the overwrite is about to happen.
C9_Witness ==
    /\ BrakeResolved
    /\ \E rnd \in Rounding :
         /\ ApCmp(car, vsq[Py(i)], r[Py(i - 1)], rnd) <= 0
         /\ BrakeCandidate(rnd).vsq < vsq[Py(i - 1)]

\* C10: after find_apex positions, elevation, first and second derivative and
\* radius at any index all describe the same physical track sample.
C10_AllArraysRotated ==
    (pc # "find_apex") =>
        \A j \in Idx : /\ elevation[j] = pts_interp[j]
                       /\ dpds[j] = pts_interp[j]
                       /\ d2pds2[j] = pts_interp[j]
                       /\ r[j] = r_in[pts_interp[j]]

\* Gear k+1 has its engine rpm in [minrpm, 0.95*maxrpm) at wheel rpm rpm0
InBand(c, rpm0, k) ==
    /\ c.engine.minrpm * 10 <= RpmList(c, rpm0, k)
    /\ RpmList(c, rpm0, k) * 10 < c.engine.maxrpm * 95

\* The lowest gear in the band, or the current gear gr if there is none
BandGear(c, gr, rpm0) ==
    IF \E k \in 0 .. (NGears(c) - 1) : InBand(c, rpm0, k)
    THEN (CHOOSE k \in 0 .. (NGears(c) - 1) :
              /\ InBand(c, rpm0, k)
              /\ \A j \in 0 .. (k - 1) : ~InBand(c, rpm0, j)) + 1
    ELSE gr

\* The <<gear, squared entry speed>> of the powertrain calls the pipeline
\* makes from the current state: v_apex for every apex, the forward step, the
\* braking step.
PowertrainCalls ==
    IF err # "" THEN {}
    ELSE IF pc = "get_velocity_list"
    THEN {<<0, LateralSq(car, r[k])>> : k \in ApexSet}
    ELSE IF pc = "solve" /\ state = "f"
    THEN IF /\ vsq[Rem(i + 1)] = 0
            /\ \E rnd \in Rounding : ApCmp(car, vsq[i], r[Rem(i + 1)], rnd) < 0
         THEN {<<gear[i], vsq[i]>>}
         ELSE {}
    ELSE IF pc = "solve" /\ state = "b" /\ InRange(i - 1)
    THEN IF \/ vsq[Py(i - 1)] = 0
            \/ \E rnd \in Rounding : ApCmp(car, vsq[Py(i)], r[Py(i - 1)], rnd) <= 0
         THEN {<<gear[Py(i)], vsq[Py(i)]>>}
         ELSE {}
    ELSE {}

\* C11: for every call of v_lim_hybrid the pipeline makes (the v_apex call
\* with gear 0 included) the returned gear is the lowest gear whose engine rpm
\* lies in [minrpm, 0.95*maxrpm) when there is one, and the current gear
\* otherwise.
C11_GearIsLowestInBand ==
    (car.hybrid = 1) =>
        \A call \in PowertrainCalls :
            GearNew(car, call[1], WheelRpm(car, Vel(call[2])))
                = BandGear(car, call[1], WheelRpm(car, Vel(call[2])))

\* The samples whose time increment was computed for segment sg -> sg+1
CoveredBy(sg) == {k \in Idx : time_seg[k] = sg}

\* C12: when get_velocity_list has returned, every segment between
\* consecutive samples is the segment of exactly one of the N time
\* increments: none is counted twice and none is left out.
C12_IncrementsCoverSegments ==
    Returned => \A sg \in Idx : Cardinality(CoveredBy(sg)) = 1

\* The indices with which the next step of the solver or of e_apex
\* subscripts the per-sample arrays: v[i] and v[np.remainder(i+1, N)] going
\* forward, v[i], v[i-1] and self.r[i-1] going backward, v[a] and v[a+1] for
\* every apex a in e_apex.
AccessedIndices ==
    IF err # "" THEN {}
    ELSE IF pc = "solve" /\ state = "f" THEN {i, Rem(i + 1)}
    ELSE IF pc = "solve" /\ state = "b" THEN {i, i - 1}
    ELSE IF pc = "e_apex" THEN ApexSet \cup {a + 1 : a \in ApexSet}
    ELSE {}

\* C13: every index the solver and e_apex subscript a per-sample array with
\* designates a sample of the N-sample sequence (the modulo-N neighbour of
\* the cursor), also while braking backward past index 0 and in e_apex with
\* an apex at index N-1.
C13_AccessesInRange ==
    \A k \in AccessedIndices : InRange(k)

=============================================================================
